---- MODULE Spec2Model ----
(***************************************************************************)
(* Model of the two programs of the repository:                            *)
(*   - the number pipeline (src/ConsoleApplication6.cpp): FileReader,      *)
(*     the filters and their factory, the observers, NumberProcessor::run  *)
(*     and main;                                                           *)
(*   - the switchable logger (src/main.cpp): the sinks and Logger.         *)
(* The two programs are separate processes: PipelineSpec runs the first,   *)
(* LoggerSpec the second.  Strings the code parses are sequences of        *)
(* one-character strings, so that parsing is computed, not assumed.        *)
(***************************************************************************)
EXTENDS Integers, Sequences, FiniteSets, TLC

VARIABLES
    \* ---- number pipeline (src/ConsoleApplication6.cpp) ----
    argv,            \* argv[1..argc-1]
    fileOpenable,    \* whether ifstream file(filename) opens
    fileContent,     \* the file: tokens and line breaks, in order
    pc,              \* position of main / NumberProcessor::run
    filter_type,     \* main: filter_type
    filter_value,    \* main: filter_value
    filter,          \* main: the filter the factory made
    numbers,         \* run: vector<int> numbers
    idx,             \* run: position of the range-for over numbers
    obs,             \* notifyObservers / notifyFinished: position over observers_
    count_,          \* CountObserver::count_
    exit_code,       \* value returned by main
    calls,           \* history: observer callbacks invoked, in order
    reads,           \* history: number of calls of reader_.read
    \* ---- both programs ----
    cout,            \* lines written to standard output
    cerr,            \* lines written to standard error
    \* ---- logger (src/main.cpp) ----
    sink_,           \* Logger::sink_ (an instance id, or NULL)
    current_sink_type_,
    heap,            \* sink instances ever constructed: id -> state
    app_log,         \* lines of the file app.log
    status,          \* the logger process: running / exited
    hist             \* history: the calls made on the logger, in order

pvars == <<argv, fileOpenable, fileContent, pc, filter_type, filter_value,
           filter, numbers, idx, obs, count_, exit_code, calls, reads>>
lvars == <<sink_, current_sink_type_, heap, app_log, status, hist>>
vars  == <<pvars, cout, cerr, lvars>>

-----------------------------------------------------------------------------
(* Bounds of the model. *)

\* longest enumerated input file, in items (tokens and line breaks)
MaxFileLen == 3

\* number of calls made on the logger in one behaviour
MaxOps == 5

-----------------------------------------------------------------------------
(* Characters and std::stoi. *)

INT_MAX == 2147483647
INT_MIN == -INT_MAX - 1

DigitChars == <<"0", "1", "2", "3", "4", "5", "6", "7", "8", "9">>

IsDigit(c) == \E k \in 1..10 : DigitChars[k] = c

DigitVal(c) == (CHOOSE k \in 1..10 : DigitChars[k] = c) - 1

IsSpace(c) == c \in {" ", "\n", "\t"}

\* index of the first character of str at or after k that is not white space
RECURSIVE SkipSpace(_, _)
SkipSpace(str, k) ==
    IF k <= Len(str) /\ IsSpace(str[k]) THEN SkipSpace(str, k + 1) ELSE k

\* index just past the run of digits of str that starts at k
RECURSIVE DigitsEnd(_, _)
DigitsEnd(str, k) ==
    IF k <= Len(str) /\ IsDigit(str[k]) THEN DigitsEnd(str, k + 1) ELSE k

\* the digits str[k..e-1] accumulated as a non-positive number; ok is FALSE
\* as soon as the number leaves the range of int
RECURSIVE Accumulate(_, _, _, _)
Accumulate(str, k, e, acc) ==
    IF k >= e THEN [ok |-> TRUE, v |-> acc]
    ELSE LET d == DigitVal(str[k])
         IN  IF acc < (INT_MIN + d + 9) \div 10
             THEN [ok |-> FALSE, v |-> 0]
             ELSE Accumulate(str, k + 1, e, acc * 10 - d)

\* std::stoi(str): leading white space skipped, an optional sign, the longest
\* run of digits; what follows the digits is ignored.  No digit:
\* invalid_argument.  A value outside int: out_of_range.
Stoi(str) ==
    LET p    == SkipSpace(str, 1)
        sgn  == IF p <= Len(str) /\ str[p] \in {"-", "+"} THEN str[p] ELSE ""
        q    == IF sgn = "" THEN p ELSE p + 1
        e    == DigitsEnd(str, q)
        neg  == Accumulate(str, q, e, 0)
    IN  IF e = q THEN [kind |-> "invalid_argument", value |-> 0]
        ELSE IF ~neg.ok THEN [kind |-> "out_of_range", value |-> 0]
        ELSE IF sgn = "-" THEN [kind |-> "value", value |-> neg.v]
        ELSE IF neg.v = INT_MIN THEN [kind |-> "out_of_range", value |-> 0]
        ELSE [kind |-> "value", value |-> -neg.v]

\* the C++ remainder a % b for b > 0: the sign follows the dividend
CRem(a, b) ==
    LET m == a % b
    IN  IF a >= 0 \/ m = 0 THEN m ELSE m - b

-----------------------------------------------------------------------------
(* FileReader::read. *)

\* the line break, as an item of the file
NL == <<"\n">>

\* std::getline in a loop: the lines of the file, each the tokens `ss >>` yields
RECURSIVE SplitLines(_, _, _)
SplitLines(content, k, line) ==
    IF k > Len(content) THEN (IF line = <<>> THEN <<>> ELSE <<line>>)
    ELSE IF content[k] = NL THEN <<line>> \o SplitLines(content, k + 1, <<>>)
    ELSE SplitLines(content, k + 1, Append(line, content[k]))

\* the body of the inner loop: one token, pushed or warned about
ReadToken(tok, acc) ==
    LET r == Stoi(tok)
    IN  IF r.kind = "value"
        THEN [acc EXCEPT !.numbers = Append(@, r.value)]
        ELSE IF r.kind = "invalid_argument"
        THEN [acc EXCEPT !.warnings = Append(@, <<"Warning: Invalid number in file", tok>>)]
        ELSE [acc EXCEPT !.warnings = Append(@, <<"Warning: Number out of range in file", tok>>)]

RECURSIVE ReadLine(_, _, _)
ReadLine(line, k, acc) ==
    IF k > Len(line) THEN acc ELSE ReadLine(line, k + 1, ReadToken(line[k], acc))

RECURSIVE ReadLines(_, _, _)
ReadLines(lines, k, acc) ==
    IF k > Len(lines) THEN acc
    ELSE ReadLines(lines, k + 1, ReadLine(lines[k], 1, acc))

\* FileReader::read on a file that opened: the numbers returned and the
\* warnings written to cerr
FileReaderRead(content) ==
    ReadLines(SplitLines(content, 1, <<>>), 1, [numbers |-> <<>>, warnings |-> <<>>])

-----------------------------------------------------------------------------
(* The filters and FilterFactory. *)

EvenNumberFilterKeep(number) == CRem(number, 2) = 0

OddNumberFilterKeep(number) == CRem(number, 2) # 0

GreaterThanFilterKeep(threshold_, number) == number > threshold_

\* INumberFilter::keep, dispatched on the filter's class
Keep(f, number) ==
    CASE f.kind = "EVEN" -> EvenNumberFilterKeep(number)
      [] f.kind = "ODD"  -> OddNumberFilterKeep(number)
      [] f.kind = "GT"   -> GreaterThanFilterKeep(f.threshold_, number)

S_EVEN == <<"E", "V", "E", "N">>
S_ODD  == <<"O", "D", "D">>
S_GT   == <<"G", "T">>

\* the creator registered for "GT": stoi(arg), its exceptions rethrown
CreateGT(arg) ==
    LET r == Stoi(arg)
    IN  IF r.kind = "value"
        THEN [kind |-> "filter", filter |-> [kind |-> "GT", threshold_ |-> r.value],
              what |-> <<"", <<>>>>]
        ELSE IF r.kind = "invalid_argument"
        THEN [kind |-> "invalid_argument", filter |-> [kind |-> "none", threshold_ |-> 0],
              what |-> <<"Invalid argument for GT filter", arg>>]
        ELSE [kind |-> "out_of_range", filter |-> [kind |-> "none", threshold_ |-> 0],
              what |-> <<"Argument out of range for GT filter", arg>>]

\* FilterFactory::createFilter over the creators the constructor registers
CreateFilter(filterType, filterArg) ==
    IF filterType = S_EVEN
    THEN [kind |-> "filter", filter |-> [kind |-> "EVEN", threshold_ |-> 0], what |-> <<"", <<>>>>]
    ELSE IF filterType = S_ODD
    THEN [kind |-> "filter", filter |-> [kind |-> "ODD", threshold_ |-> 0], what |-> <<"", <<>>>>]
    ELSE IF filterType = S_GT
    THEN CreateGT(filterArg)
    ELSE [kind |-> "invalid_argument", filter |-> [kind |-> "none", threshold_ |-> 0],
          what |-> <<"Unknown filter type", filterType>>]

-----------------------------------------------------------------------------
(* The observers. *)

\* main: observers = { &print_observer, &count_observer }
observers_ == <<"print", "count">>

\* what on_number(number) of observer o writes to cout
OnNumberOut(o, number) ==
    IF o = "print" THEN <<<<"Read and filtered number", number>>>> ELSE <<>>

\* count_ after on_number of observer o
OnNumberCount(o, c) == IF o = "count" THEN c + 1 ELSE c

\* what on_finished of observer o writes to cout
OnFinishedOut(o, c) ==
    IF o = "print" THEN <<<<"Number processing finished.", 0>>>>
    ELSE <<<<"Total number of filtered numbers", c>>>>

-----------------------------------------------------------------------------
(* main and NumberProcessor::run of the pipeline, step by step. *)

StartsWithGT(s) == Len(s) >= 2 /\ SubSeq(s, 1, 2) = S_GT

\* main, up to the construction of the factory: the argument count, then the
\* split of the filter argument into type and value
MainArgs ==
    /\ pc = "main"
    /\ IF Len(argv) + 1 < 3
       THEN /\ cerr' = cerr \o <<<<"Usage", <<>>>>, <<"Available filters: EVEN, ODD, GT<n>", <<>>>>>>
            /\ exit_code' = 1
            /\ pc' = "exited"
            /\ UNCHANGED <<filter_type, filter_value>>
       ELSE /\ IF StartsWithGT(argv[1])
               THEN /\ filter_type' = S_GT
                    /\ filter_value' = SubSeq(argv[1], 3, Len(argv[1]))
               ELSE /\ filter_type' = argv[1]
                    /\ filter_value' = <<>>
            /\ pc' = "create"
            /\ UNCHANGED <<cerr, exit_code>>
    /\ UNCHANGED <<argv, fileOpenable, fileContent, filter, numbers, idx, obs,
                   count_, calls, reads, cout, lvars>>

\* main: factory.createFilter in its try block
MainCreateFilter ==
    /\ pc = "create"
    /\ LET r == CreateFilter(filter_type, filter_value)
       IN  IF r.kind = "filter"
           THEN /\ filter' = r.filter
                /\ pc' = "run"
                /\ UNCHANGED <<cerr, exit_code>>
           ELSE /\ cerr' = Append(cerr, <<"Error", r.what[1], r.what[2]>>)
                /\ exit_code' = 1
                /\ pc' = "exited"
                /\ UNCHANGED filter
    /\ UNCHANGED <<argv, fileOpenable, fileContent, filter_type, filter_value,
                   numbers, idx, obs, count_, calls, reads, cout, lvars>>

\* RunRead with the failure caught around the read alone: the run goes on to
\* notifyFinished
RunRead_CatchAroundRead ==
    /\ pc = "run"
    /\ reads' = reads + 1
    /\ IF ~fileOpenable
       THEN /\ cerr' = Append(cerr, <<"Error during processing: Could not open file", argv[2]>>)
            /\ pc' = "loop"
            /\ idx' = 1
            /\ UNCHANGED numbers
       ELSE LET r == FileReaderRead(fileContent)
            IN  /\ numbers' = r.numbers
                /\ cerr' = cerr \o r.warnings
                /\ idx' = 1
                /\ pc' = "loop"
    /\ UNCHANGED <<argv, fileOpenable, fileContent, filter_type, filter_value,
                   filter, obs, count_, exit_code, calls, cout, lvars>>

\* run: reader_.read(filename); a runtime_error leaves the try block
RunRead ==
    /\ pc = "run"
    /\ reads' = reads + 1
    /\ IF ~fileOpenable
       THEN /\ cerr' = Append(cerr, <<"Error during processing: Could not open file", argv[2]>>)
            /\ pc' = "return"
            /\ UNCHANGED <<numbers, idx>>
       ELSE LET r == FileReaderRead(fileContent)
            IN  /\ numbers' = r.numbers
                /\ cerr' = cerr \o r.warnings
                /\ idx' = 1
                /\ pc' = "loop"
    /\ UNCHANGED <<argv, fileOpenable, fileContent, filter_type, filter_value,
                   filter, obs, count_, exit_code, calls, cout, lvars>>

\* RunLoop with the loop bound off by one: the last number is never looked at
RunLoop_OffByOne ==
    /\ pc = "loop"
    /\ IF idx < Len(numbers)
       THEN IF Keep(filter, numbers[idx])
            THEN /\ pc' = "notify"
                 /\ obs' = 1
                 /\ UNCHANGED idx
            ELSE /\ idx' = idx + 1
                 /\ UNCHANGED <<pc, obs>>
       ELSE /\ pc' = "finish"
            /\ obs' = 1
            /\ UNCHANGED idx
    /\ UNCHANGED <<argv, fileOpenable, fileContent, filter_type, filter_value,
                   filter, numbers, count_, exit_code, calls, reads, cout, cerr, lvars>>

\* run: one turn of `for (int number : numbers)`, then notifyFinished
RunLoop ==
    /\ pc = "loop"
    /\ IF idx <= Len(numbers)
       THEN IF Keep(filter, numbers[idx])
            THEN /\ pc' = "notify"
                 /\ obs' = 1
                 /\ UNCHANGED idx
            ELSE /\ idx' = idx + 1
                 /\ UNCHANGED <<pc, obs>>
       ELSE /\ pc' = "finish"
            /\ obs' = 1
            /\ UNCHANGED idx
    /\ UNCHANGED <<argv, fileOpenable, fileContent, filter_type, filter_value,
                   filter, numbers, count_, exit_code, calls, reads, cout, cerr, lvars>>

\* NotifyObservers walking observers_ from its last element to its first
NotifyObservers_Reversed ==
    /\ pc = "notify"
    /\ IF obs <= Len(observers_)
       THEN LET o == observers_[Len(observers_) + 1 - obs]
            IN  /\ calls' = Append(calls, <<o, "on_number", numbers[idx]>>)
                /\ cout' = cout \o OnNumberOut(o, numbers[idx])
                /\ count_' = OnNumberCount(o, count_)
                /\ obs' = obs + 1
                /\ UNCHANGED <<pc, idx>>
       ELSE /\ pc' = "loop"
            /\ idx' = idx + 1
            /\ UNCHANGED <<calls, cout, count_, obs>>
    /\ UNCHANGED <<argv, fileOpenable, fileContent, filter_type, filter_value,
                   filter, numbers, exit_code, reads, cerr, lvars>>

\* notifyObservers: one turn of its loop
NotifyObservers ==
    /\ pc = "notify"
    /\ IF obs <= Len(observers_)
       THEN /\ calls' = Append(calls, <<observers_[obs], "on_number", numbers[idx]>>)
            /\ cout' = cout \o OnNumberOut(observers_[obs], numbers[idx])
            /\ count_' = OnNumberCount(observers_[obs], count_)
            /\ obs' = obs + 1
            /\ UNCHANGED <<pc, idx>>
       ELSE /\ pc' = "loop"
            /\ idx' = idx + 1
            /\ UNCHANGED <<calls, cout, count_, obs>>
    /\ UNCHANGED <<argv, fileOpenable, fileContent, filter_type, filter_value,
                   filter, numbers, exit_code, reads, cerr, lvars>>

\* notifyFinished: one turn of its loop
NotifyFinished ==
    /\ pc = "finish"
    /\ IF obs <= Len(observers_)
       THEN /\ calls' = Append(calls, <<observers_[obs], "on_finished", 0>>)
            /\ cout' = cout \o OnFinishedOut(observers_[obs], count_)
            /\ obs' = obs + 1
            /\ UNCHANGED pc
       ELSE /\ pc' = "return"
            /\ UNCHANGED <<calls, cout, obs>>
    /\ UNCHANGED <<argv, fileOpenable, fileContent, filter_type, filter_value,
                   filter, numbers, idx, count_, exit_code, reads, cerr, lvars>>

\* main: return 0 after processor.run
MainReturn ==
    /\ pc = "return"
    /\ exit_code' = 0
    /\ pc' = "exited"
    /\ UNCHANGED <<argv, fileOpenable, fileContent, filter_type, filter_value,
                   filter, numbers, idx, obs, count_, calls, reads, cout, cerr, lvars>>

-----------------------------------------------------------------------------
(* The logger: sinks and Logger. *)

NULL == 0

ConsoleSink == [kind |-> "ConsoleSink", alive |-> TRUE, file_open_ |-> FALSE, failed |-> FALSE]

\* FileSink with file_open_ set without asking the stream
FileSink_AssumesOpen(opened) ==
    [kind |-> "FileSink", alive |-> TRUE, file_open_ |-> TRUE, failed |-> FALSE]

\* FileSink::FileSink: file_("app.log", ios::app), file_open_(file_.is_open())
FileSink(opened) == [kind |-> "FileSink", alive |-> TRUE, file_open_ |-> opened, failed |-> FALSE]

\* NullSink whose write is ConsoleSink's
NullSink_Writes == [kind |-> "ConsoleSink", alive |-> TRUE, file_open_ |-> FALSE, failed |-> FALSE]

NullSink == [kind |-> "NullSink", alive |-> TRUE, file_open_ |-> FALSE, failed |-> FALSE]

\* what FileSink::FileSink writes to cerr
FileSinkCtorErr(opened) ==
    IF opened THEN <<>> ELSE <<<<"Error opening file app.log for writing.">>>>

SinkType == {"CONSOLE", "FILE", "NONE"}

\* a value of the enum's underlying type that names no enumerator
UnrecognizedSinkType == "static_cast<SinkType>(3)"

\* UniquePtrAssign with a raw owning pointer: the old instance is never deleted
UniquePtrAssign_Leak(h, old, new) == Append(h, new)

\* sink_ = make_unique<...>(): the new instance is constructed, the unique_ptr
\* takes it and deletes the instance it owned
UniquePtrAssign(h, old, new) ==
    Append(IF old = NULL THEN h ELSE [h EXCEPT ![old].alive = FALSE], new)

\* formatLogMessage without the function name
formatLogMessage_NoFunction(msg, location) ==
    <<"[", location.file_name, ":", location.line, "] ", msg>>

\* Logger::formatLogMessage
formatLogMessage(msg, location) ==
    <<"[", location.file_name, ":", location.function_name, ":", location.line, "] ", msg>>

\* the calls of log the model makes: main's first two, with their source_location
LogCalls ==
    { [msg |-> "First test message.",
       location |-> [file_name |-> "main.cpp", function_name |-> "int main(int, char**)", line |-> 136]],
      [msg |-> "Second test message.",
       location |-> [file_name |-> "main.cpp", function_name |-> "int main(int, char**)", line |-> 137]] }

NoCall == [msg |-> "", location |-> [file_name |-> "", function_name |-> "", line |-> 0]]

\* SetSink whose default label falls back to the console sink
SetSink_DefaultsToConsole(type, opened) ==
    /\ status = "running"
    /\ Len(hist) < MaxOps
    /\ type = "FILE" \/ opened
    /\ hist' = Append(hist, [op |-> "set_sink", type |-> type, call |-> NoCall,
                             env |-> opened, before |-> app_log])
    /\ CASE type = "FILE" ->
              /\ heap' = UniquePtrAssign(heap, sink_, FileSink(opened))
              /\ sink_' = Len(heap')
              /\ current_sink_type_' = "FILE"
              /\ cout' = Append(cout, <<"Logging redirected to file app.log.">>)
              /\ cerr' = cerr \o FileSinkCtorErr(opened)
         [] type = "NONE" ->
              /\ heap' = UniquePtrAssign(heap, sink_, NullSink)
              /\ sink_' = Len(heap')
              /\ current_sink_type_' = "NONE"
              /\ cout' = Append(cout, <<"Logging disabled.">>)
              /\ UNCHANGED cerr
         [] OTHER ->
              /\ heap' = UniquePtrAssign(heap, sink_, ConsoleSink)
              /\ sink_' = Len(heap')
              /\ current_sink_type_' = "CONSOLE"
              /\ cout' = Append(cout, <<"Logging redirected to console.">>)
              /\ UNCHANGED cerr
    /\ UNCHANGED <<app_log, status, pvars>>

\* Logger::set_sink(type); opened: whether app.log opens, for a FileSink
SetSink(type, opened) ==
    /\ status = "running"
    /\ Len(hist) < MaxOps
    /\ type = "FILE" \/ opened
    /\ hist' = Append(hist, [op |-> "set_sink", type |-> type, call |-> NoCall,
                             env |-> opened, before |-> app_log])
    /\ CASE type = "CONSOLE" ->
              /\ heap' = UniquePtrAssign(heap, sink_, ConsoleSink)
              /\ sink_' = Len(heap')
              /\ current_sink_type_' = "CONSOLE"
              /\ cout' = Append(cout, <<"Logging redirected to console.">>)
              /\ UNCHANGED cerr
         [] type = "FILE" ->
              /\ heap' = UniquePtrAssign(heap, sink_, FileSink(opened))
              /\ sink_' = Len(heap')
              /\ current_sink_type_' = "FILE"
              /\ cout' = Append(cout, <<"Logging redirected to file app.log.">>)
              /\ cerr' = cerr \o FileSinkCtorErr(opened)
         [] type = "NONE" ->
              /\ heap' = UniquePtrAssign(heap, sink_, NullSink)
              /\ sink_' = Len(heap')
              /\ current_sink_type_' = "NONE"
              /\ cout' = Append(cout, <<"Logging disabled.">>)
              /\ UNCHANGED cerr
         [] OTHER ->
              /\ cerr' = Append(cerr, <<"Unknown sink type. Previous sink remains.">>)
              /\ UNCHANGED <<heap, sink_, current_sink_type_, cout>>
    /\ UNCHANGED <<app_log, status, pvars>>

\* LogSink::write of the instance s on line; written: whether the stream
\* takes the line (file_.fail() is false after it)
SinkWrite(s, line, written) ==
    CASE heap[s].kind = "ConsoleSink" ->
              /\ cout' = Append(cout, line)
              /\ UNCHANGED <<cerr, app_log, heap>>
      [] heap[s].kind = "FileSink" ->
              IF heap[s].file_open_
              THEN IF written /\ ~heap[s].failed
                   THEN /\ app_log' = Append(app_log, line)
                        /\ UNCHANGED <<cout, cerr, heap>>
                   ELSE /\ heap' = [heap EXCEPT ![s].failed = TRUE]
                        /\ cerr' = Append(cerr, <<"Error writing to file app.log.">>)
                        /\ UNCHANGED <<cout, app_log>>
              ELSE /\ cerr' = Append(cerr, <<"Error: File app.log is not open.">>)
                   /\ UNCHANGED <<cout, app_log, heap>>
      [] heap[s].kind = "NullSink" ->
              UNCHANGED <<cout, cerr, app_log, heap>>

\* whether a write on instance s reaches the stream at all
WritesToStream(s) ==
    s # NULL /\ heap[s].kind = "FileSink" /\ heap[s].file_open_ /\ ~heap[s].failed

\* Logger::log(msg, location)
Log(call, written) ==
    /\ status = "running"
    /\ Len(hist) < MaxOps
    /\ WritesToStream(sink_) \/ written
    /\ hist' = Append(hist, [op |-> "log", type |-> "", call |-> call,
                             env |-> written, before |-> app_log])
    /\ IF sink_ # NULL
       THEN SinkWrite(sink_, formatLogMessage(call.msg, call.location), written)
       ELSE /\ cerr' = Append(cerr, <<"Error: Sink not set.">>)
            /\ UNCHANGED <<cout, app_log, heap>>
    /\ UNCHANGED <<sink_, current_sink_type_, status, pvars>>

\* process exit: ~Logger destroys the sink it owns
Exit ==
    /\ status = "running"
    /\ status' = "exited"
    /\ heap' = IF sink_ = NULL THEN heap ELSE [heap EXCEPT ![sink_].alive = FALSE]
    /\ sink_' = NULL
    /\ UNCHANGED <<current_sink_type_, app_log, hist, cout, cerr, pvars>>

-----------------------------------------------------------------------------
(* Inputs and specifications. *)

\* tokens of the enumerated input files
Tokens == { <<"2">>, <<"x">>, <<"-", "3">>, <<"3", "x">> }

BoundedFiles == UNION { [1..n -> Tokens \cup {NL}] : n \in 0..MaxFileLen }

\* the file "2 3 x 4\n5 -2\n"
ExampleFile == << <<"2">>, <<"3">>, <<"x">>, <<"4">>, NL, <<"5">>, <<"-", "2">>, NL >>

\* a file of tokens at and just past the ends of int
RangeFile ==
    << <<"2", "1", "4", "7", "4", "8", "3", "6", "4", "7">>,
       <<"2", "1", "4", "7", "4", "8", "3", "6", "4", "8">>, NL,
       <<"-", "2", "1", "4", "7", "4", "8", "3", "6", "4", "8">>,
       <<"-", "2", "1", "4", "7", "4", "8", "3", "6", "4", "9">>,
       <<"+", "7">>, <<"-">> >>

Files == BoundedFiles \cup {ExampleFile, RangeFile}

FileName == <<"n", "u", "m", "s">>

\* values of argv[1]
FilterArgs ==
    { S_EVEN, S_ODD, S_GT,
      <<"G", "T", "0">>, <<"G", "T", "2">>, <<"G", "T", "-", "3">>,
      <<"G", "T", "x">>, <<"G", "T", "2", "x">>,
      <<"G", "T", "2", "1", "4", "7", "4", "8", "3", "6", "4", "8">>,
      <<"e", "v", "e", "n">> }

Argvs == { <<>>, <<S_EVEN>> } \cup { <<f, FileName>> : f \in FilterArgs }

\* the pipeline process before main runs
PipelineStart ==
    /\ pc = "main"
    /\ filter_type = <<>>
    /\ filter_value = <<>>
    /\ filter = [kind |-> "none", threshold_ |-> 0]
    /\ numbers = <<>>
    /\ idx = 0
    /\ obs = 0
    /\ count_ = 0
    /\ exit_code = -1
    /\ calls = <<>>
    /\ reads = 0

\* the logger after Logger::Logger: a ConsoleSink installed
LoggerStart ==
    /\ heap = <<ConsoleSink>>
    /\ sink_ = 1
    /\ current_sink_type_ = "CONSOLE"
    /\ status = "running"
    /\ hist = <<>>

PreviousLine == <<"[", "main.cpp", ":", "int main(int, char**)", ":", 139, "] ", "Message to file.">>

PipelineInit ==
    /\ argv \in Argvs
    /\ fileOpenable \in BOOLEAN
    /\ fileContent \in (IF fileOpenable THEN Files ELSE {<<>>})
    /\ PipelineStart
    /\ cout = <<>>
    /\ cerr = <<>>
    /\ LoggerStart
    /\ app_log = <<>>

PipelineNext ==
    \/ MainArgs
    \/ MainCreateFilter
    \/ RunRead
    \/ RunLoop
    \/ NotifyObservers
    \/ NotifyFinished
    \/ MainReturn

PipelineSpec == PipelineInit /\ [][PipelineNext]_vars

LoggerInit ==
    /\ LoggerStart
    /\ app_log \in {<<>>, <<PreviousLine>>}
    /\ cout = <<>>
    /\ cerr = <<>>
    /\ argv = <<>>
    /\ fileOpenable = FALSE
    /\ fileContent = <<>>
    /\ PipelineStart

LoggerNext ==
    \/ \E type \in SinkType \cup {UnrecognizedSinkType}, opened \in BOOLEAN : SetSink(type, opened)
    \/ \E call \in LogCalls, written \in BOOLEAN : Log(call, written)
    \/ Exit

LoggerSpec == LoggerInit /\ [][LoggerNext]_vars

-----------------------------------------------------------------------------
(* Properties of the number pipeline, checked under PipelineSpec. *)

\* position of observer o in observers_
ObsIndex(o) == CHOOSE k \in 1..Len(observers_) : observers_[k] = o

\* the values observer o received through on_number among the calls cs
Delivered(o, cs) ==
    LET sel == SelectSeq(cs, LAMBDA c : c[1] = o /\ c[2] = "on_number")
    IN  [k \in 1..Len(sel) |-> sel[k][3]]

\* the numbers read for which filter.keep is true, in the order read
KeptNumbers ==
    IF filter.kind = "none" THEN <<>>
    ELSE SelectSeq(numbers, LAMBDA n : Keep(filter, n))

IsPrefix(s, t) == Len(s) <= Len(t) /\ s = SubSeq(t, 1, Len(s))

\* the run read the file and went through all of it
RunCompleted == reads = 1 /\ fileOpenable /\ pc \in {"return", "exited"}

FinishedCalls(o) == { p \in 1..Len(calls) : calls[p][1] = o /\ calls[p][2] = "on_finished" }

\* C1: every event reaches the observers in registration order, one right
\* after the other (the first observer's call for a number comes before the
\* second's for that number); on_finished is called only after on_number was
\* delivered for all kept numbers, nothing follows the on_finished calls, and
\* a run that completes has called each observer's on_finished exactly once.
C1_RegistrationOrder ==
    /\ \A p \in 1..Len(calls) :
          LET c == calls[p]
              k == ObsIndex(c[1])
          IN  /\ k > 1 => p > 1 /\ calls[p - 1] = <<observers_[k - 1], c[2], c[3]>>
              /\ (k = 1 /\ p > 1) => calls[p - 1][1] = observers_[Len(observers_)]
              /\ c[2] = "on_finished" =>
                    /\ \A o \in {observers_[m] : m \in 1..Len(observers_)} :
                          Delivered(o, SubSeq(calls, 1, p - 1)) = KeptNumbers
                    /\ \A q \in p..Len(calls) : calls[q][2] = "on_finished"
    /\ \A m \in 1..Len(observers_) :
          /\ Cardinality(FinishedCalls(observers_[m])) <= 1
          /\ RunCompleted => Cardinality(FinishedCalls(observers_[m])) = 1

\* C1 witness: a completed run that kept two numbers or more and notified
\* both observers of each and of the end
C1_Witness ==
    /\ pc = "exited"
    /\ Len(KeptNumbers) >= 2
    /\ Len(calls) = 2 * Len(KeptNumbers) + 2
    /\ calls[1][1] = "print" /\ calls[2][1] = "count"

GT0 == <<"G", "T", "0">>

\* C2: what each observer receives through on_number is, at every moment, a
\* prefix of the kept numbers and, once the run has completed, all of them;
\* the count observer's counter is the number of values it received and the
\* count it prints is the number of kept values.  The file "2 3 x 4\n5 -2\n"
\* under GT0 delivers 2, 3, 4, 5 and prints the count 4.
C2_DeliveredIsKept ==
    /\ \A m \in 1..Len(observers_) :
          /\ IsPrefix(Delivered(observers_[m], calls), KeptNumbers)
          /\ (RunCompleted \/ pc = "finish") =>
                Delivered(observers_[m], calls) = KeptNumbers
    /\ count_ = Len(Delivered("count", calls))
    /\ RunCompleted =>
          /\ <<"Total number of filtered numbers", Len(KeptNumbers)>> = cout[Len(cout)]
          /\ SelectSeq(cout, LAMBDA l : l[1] = "Read and filtered number")
                = [k \in 1..Len(KeptNumbers) |-> <<"Read and filtered number", KeptNumbers[k]>>]
    /\ (RunCompleted /\ fileContent = ExampleFile /\ argv[1] = GT0) =>
          /\ Delivered("print", calls) = <<2, 3, 4, 5>>
          /\ Delivered("count", calls) = <<2, 3, 4, 5>>
          /\ cout[Len(cout)] = <<"Total number of filtered numbers", 4>>

\* C2 witness: the example run, completed
C2_Witness ==
    /\ pc = "exited"
    /\ Len(argv) = 2 /\ argv[1] = GT0
    /\ fileContent = ExampleFile
    /\ count_ = 4
    /\ Len(cerr) = 1

\* C3: when the input file cannot be opened no observer is ever called and
\* nothing is counted or printed; once the read has failed the error is
\* reported on cerr and the run is over.
C3_NoNotificationOnOpenFailure ==
    ~fileOpenable =>
        /\ calls = <<>>
        /\ cout = <<>>
        /\ count_ = 0
        /\ reads = 1 =>
              /\ pc \in {"return", "exited"}
              /\ cerr = <<<<"Error during processing: Could not open file", argv[2]>>>>

\* C3 witness: main has returned after a read that failed
C3_Witness ==
    /\ ~fileOpenable
    /\ reads = 1
    /\ pc = "exited"
    /\ exit_code = 0

\* a token that is a number and nothing else: an optional sign, then digits
IsNumeral(tok) ==
    LET q == IF Len(tok) >= 1 /\ tok[1] \in {"-", "+"} THEN 2 ELSE 1
    IN  /\ q <= Len(tok)
        /\ \A k \in q..Len(tok) : IsDigit(tok[k])

\* a token that is a number within the range of int
IsIntToken(tok) == IsNumeral(tok) /\ Stoi(tok).kind = "value"

\* the tokens of the file, left to right and top to bottom
FileTokens == SelectSeq(fileContent, LAMBDA t : t # NL)

\* C4: after a read of a file that opened, the numbers read are the values of
\* the tokens that are integers within range, in file order, and every other
\* token, and no other, has one warning on cerr, in file order.
C4_ReadKeepsExactlyTheIntegers ==
    (reads = 1 /\ fileOpenable) =>
        LET good == SelectSeq(FileTokens, IsIntToken)
            bad  == SelectSeq(FileTokens, LAMBDA t : ~IsIntToken(t))
        IN  /\ numbers = [k \in 1..Len(good) |-> Stoi(good[k]).value]
            /\ [k \in 1..Len(cerr) |-> cerr[k][2]] = bad

\* whether argv[1] is a filter specification: EVEN, ODD, or GT and an integer
\* within range
IsFilterSpec(arg) ==
    \/ arg = S_EVEN
    \/ arg = S_ODD
    \/ StartsWithGT(arg) /\ IsIntToken(SubSeq(arg, 3, Len(arg)))

\* C5: main returns 1 exactly when fewer than 2 arguments are given or the
\* filter specification is invalid, and then nothing was read and no observer
\* was notified; in every other case it returns 0.
C5_ExitCodes ==
    pc = "exited" =>
        /\ exit_code \in {0, 1}
        /\ exit_code = 1 <=> (Len(argv) < 2 \/ ~IsFilterSpec(argv[1]))
        /\ exit_code = 1 => reads = 0 /\ calls = <<>> /\ cout = <<>>

-----------------------------------------------------------------------------
(* Properties of the logger, checked under LoggerSpec. *)

LiveSinks == { s \in 1..Len(heap) : heap[s].alive }

\* the instances that hold an open handle on app.log
OpenHandles == { s \in LiveSinks : heap[s].kind = "FileSink" /\ heap[s].file_open_ }

SinkClass(type) ==
    CASE type = "CONSOLE" -> "ConsoleSink"
      [] type = "FILE"    -> "FileSink"
      [] type = "NONE"    -> "NullSink"

\* the last entry of the history
LastOp == hist[Len(hist)]

\* the step is a call of set_sink, or of log
IsSetSinkStep == Len(hist') = Len(hist) + 1 /\ hist'[Len(hist')].op = "set_sink"
IsLogStep     == Len(hist') = Len(hist) + 1 /\ hist'[Len(hist')].op = "log"

\* the calls of set_sink in h, in order
SetSinkCalls(h) == SelectSeq(h, LAMBDA e : e.op = "set_sink")

\* the calls of set_sink in h that named a sink type, in order
SinkChanges(h) == SelectSeq(h, LAMBDA e : e.op = "set_sink" /\ e.type \in SinkType)

\* C6: while the logger lives, sink_ is never null and the instance it names
\* is the only sink instance alive: every instance a set_sink replaced has
\* been destroyed, and its handle on app.log closed, in every state in which
\* log can be called.  The sink is a ConsoleSink before any call.
C6_ExactlyOneOwnedSink ==
    status = "running" =>
        /\ sink_ # NULL
        /\ sink_ \in 1..Len(heap)
        /\ LiveSinks = {sink_}
        /\ OpenHandles \subseteq {sink_}
        /\ Len(heap) = 1 + Len(SinkChanges(hist))
        /\ heap[sink_].kind = SinkClass(current_sink_type_)
        /\ hist = <<>> => heap[sink_].kind = "ConsoleSink"

\* C6 witness: a file sink that had app.log open was replaced, and log was
\* then called on its successor
C6_Witness ==
    /\ status = "running"
    /\ hist # <<>> /\ LastOp.op = "log"
    /\ \E s \in 1..Len(heap) :
          /\ s # sink_
          /\ heap[s].kind = "FileSink" /\ heap[s].file_open_ /\ ~heap[s].alive
    /\ heap[sink_].kind = "FileSink"

\* C7: a call of set_sink with a value that is none of CONSOLE, FILE, NONE
\* changes neither the installed instance nor the current sink type, and
\* writes the warning to cerr.
C7_UnrecognizedKindKeepsSink ==
    [][(IsSetSinkStep /\ hist'[Len(hist')].type \notin SinkType) =>
          /\ sink_' = sink_
          /\ current_sink_type_' = current_sink_type_
          /\ heap' = heap
          /\ cerr' = Append(cerr, <<"Unknown sink type. Previous sink remains.">>)
          /\ UNCHANGED <<cout, app_log, status>>]_vars

\* C7 witness: the unrecognized value was passed while the file sink was
\* installed, and the file sink is still the one installed
C7_Witness ==
    /\ hist # <<>>
    /\ LastOp.op = "set_sink" /\ LastOp.type = UnrecognizedSinkType
    /\ current_sink_type_ = "FILE"
    /\ sink_ # NULL /\ heap[sink_].kind = "FileSink" /\ heap[sink_].alive
    /\ cerr # <<>> /\ cerr[Len(cerr)] = <<"Unknown sink type. Previous sink remains.">>

\* the content of app.log after the k-th call of the history
LogAfter(k) == IF k = Len(hist) THEN app_log ELSE hist[k + 1].before

\* the line a call of log is to produce: [file:function:line] message
ExpectedLine(call) ==
    <<"[", call.location.file_name, ":", call.location.function_name, ":",
      call.location.line, "] ", call.msg>>

\* positions of the history at which set_sink(FILE) is followed by two logs
FileThenTwoLogs ==
    { k \in 1..Len(hist) - 2 :
        /\ hist[k].op = "set_sink" /\ hist[k].type = "FILE"
        /\ hist[k + 1].op = "log"
        /\ hist[k + 2].op = "log" }

TwoLinesAppended(k) ==
    LogAfter(k + 2) = hist[k].before
                        \o <<ExpectedLine(hist[k + 1].call), ExpectedLine(hist[k + 2].call)>>

OpenFailed(h) ==
    LET ch == SinkChanges(h)
    IN  ch # <<>> /\ ch[Len(ch)].type = "FILE" /\ ~ch[Len(ch)].env

\* C9: a call of log on a file sink whose open failed writes the error to
\* cerr and nothing to app.log or cout, leaves the process running, and
\* leaves the sink as it was (the open is not tried again).
C9_FailedOpenReportsEachWrite ==
    [][(IsLogStep /\ OpenFailed(hist)) =>
          /\ cerr' = Append(cerr, <<"Error: File app.log is not open.">>)
          /\ app_log' = app_log
          /\ cout' = cout
          /\ status' = "running"
          /\ heap' = heap /\ sink_' = sink_
          /\ ~heap'[sink_'].file_open_]_vars

\* C9 witness: two calls of log on a file sink whose open failed, each
\* reported
C9_Witness ==
    /\ Len(hist) >= 3
    /\ OpenFailed(hist)
    /\ hist[Len(hist)].op = "log" /\ hist[Len(hist) - 1].op = "log"
    /\ hist[Len(hist) - 2].op = "set_sink" /\ hist[Len(hist) - 2].type = "FILE"
    /\ Len(SelectSeq(cerr, LAMBDA l : l = <<"Error: File app.log is not open.">>)) = 2
    /\ app_log = hist[Len(hist) - 2].before

\* the last call of set_sink was set_sink(NONE)
DiscardSelected(h) ==
    LET ss == SetSinkCalls(h)
    IN  ss # <<>> /\ ss[Len(ss)].type = "NONE"

\* C10: a call of log made after set_sink(NONE), no other set_sink in
\* between, writes nothing to cout, to cerr or to app.log.
C10_DiscardIsSilent ==
    [][(IsLogStep /\ DiscardSelected(hist)) =>
          /\ cout' = cout
          /\ cerr' = cerr
          /\ app_log' = app_log
          /\ status' = "running"]_vars

\* C10 witness: set_sink(NONE) and then three calls of log
C10_Witness ==
    /\ Len(hist) >= 4
    /\ hist[Len(hist) - 3].op = "set_sink" /\ hist[Len(hist) - 3].type = "NONE"
    /\ \A k \in Len(hist) - 2 .. Len(hist) : hist[k].op = "log"
    /\ cout[Len(cout)] = <<"Logging disabled.">>

====
